---- MODULE Spec2Model ----
(***************************************************************************)
(* The Gin panic-reporting middleware of bugsnag-go                        *)
(* (gin/bugsnaggin.go: AutoNotify) together with the parts of the bugsnag  *)
(* notifier it calls, as exercised by bugsnag_test.go.                     *)
(*                                                                         *)
(* The handler returned by AutoNotify runs once per request, concurrently  *)
(* with other requests. Go slices are modelled as (array, len, cap) views  *)
(* of heap arrays, *http.Request values as pointers into a heap of request *)
(* objects whose Header field is itself a reference to a shared map.       *)
(***************************************************************************)
EXTENDS Integers, Sequences, FiniteSets, TLC

\* ------------------------------------------------------------------ bounds
\* Number of requests served concurrently by the handler.
NumRequests == 2
\* Largest number of extra values passed to AutoNotify(rawData...).
MaxRawData == 2

Requests == 1..NumRequests

\* --------------------------------------------------------------- constants
FrameworkName == "Gin"
SeverityReasonUnhandledMiddlewareError == "unhandled middleware error"
SeverityReasonHandledPanic == "handledPanic"
SeverityError == "error"
SeverityWarning == "warning"

\* The untyped nil.
NilDatum == [type |-> "nil"]

\* recover() returning nil: no panic is in flight.
NoPanic == [type |-> "nil", msg |-> ""]

\* The values a downstream handler panics with in the tests:
\* panic(fmt.Errorf("eggs")) and the runtime's send on a closed channel.
PanicValues ==
    { [type |-> "*errors.errorString", msg |-> "eggs"],
      [type |-> "runtime.plainError", msg |-> "send on closed channel"] }

\* bugsnag.Configuration values (as built by generateSampleConfig); a field
\* left at its zero value "" is not set.
\* AutoCaptureSessions is an interface{} field: "nil" when not set, else the
\* boolean it was given.
ConfigA ==
    [type |-> "Configuration", APIKey |-> "166f5ad3590596f9aa8d601ea89af845",
     ReleaseStage |-> "test", AutoCaptureSessions |-> "nil"]
ConfigB ==
    [type |-> "Configuration", APIKey |-> "other-key",
     ReleaseStage |-> "", AutoCaptureSessions |-> "nil"]
\* A raw datum of another type (bugsnag.User).
UserDatum == [type |-> "User", Id |-> "123"]

\* The values that may be passed to AutoNotify(rawData...).
RawDatum == {ConfigA, ConfigB, UserDatum}

RECURSIVE SeqsUpTo(_, _)
SeqsUpTo(S, n) ==
    IF n = 0 THEN {<<>>}
    ELSE LET shorter == SeqsUpTo(S, n - 1)
         IN  shorter \cup {Append(s, x) : s \in {t \in shorter : Len(t) = n - 1}, x \in S}

RawDataInputs == SeqsUpTo(RawDatum, MaxRawData)

\* Variant: the state marks the panic as handled.
HandledState_Handled ==
    [type |-> "HandledState",
     SeverityReason |-> SeverityReasonHandledPanic,
     OriginalSeverity |-> SeverityWarning,
     Unhandled |-> FALSE,
     Framework |-> FrameworkName]

\* The state every handler attaches to the panics it reports.
HandledState ==
    [type |-> "HandledState",
     SeverityReason |-> SeverityReasonUnhandledMiddlewareError,
     OriginalSeverity |-> SeverityError,
     Unhandled |-> TRUE,
     Framework |-> FrameworkName]

\* The state the notifier falls back to when the raw data carries none.
DefaultPanicState ==
    [type |-> "HandledState",
     SeverityReason |-> SeverityReasonHandledPanic,
     OriginalSeverity |-> SeverityError,
     Unhandled |-> TRUE,
     Framework |-> ""]

\* ------------------------------------------------------------------- state
VARIABLES
    Config,      \* bugsnag.Config, the global configuration
    configLog,   \* the arguments of the bugsnag.Configure calls made so far
    handler,     \* the closure returned by AutoNotify: its rawData slice
    arrays,      \* heap of []interface{} backing arrays
    reqs,        \* heap of http.Request objects
    hdrs,        \* heap of http.Header maps
    pc,          \* per request: where the handler function is
    cRequest,    \* per request: c.Request
    r,           \* per request: the local r
    ctx,         \* per request: the local ctx
    notifier,    \* per request: the local notifier
    deferred,    \* per request: the deferred calls of the handler function
    panicking,   \* per request: the panic unwinding its goroutine, if any
    raised,      \* per request: what c.Next() panicked with, if it did
    reports,     \* per request: the events its notifier handed to delivery
    rebuilt,     \* the raw data of the handlers later AutoNotify calls returned
    sessions,    \* the sessions started, each with its event counts
    delivered,   \* the event payloads the endpoint received
    logged,      \* the last message handed to the configured Logger
    observed,    \* what the recover() around the last package-level call got
    made,        \* the notifier the last New() returned
    nCalls       \* how many package-level calls were made

heapVars == <<arrays, reqs, hdrs>>
globalVars == <<Config, configLog, handler>>
localVars == <<cRequest, r, ctx, notifier, deferred>>
flowVars == <<pc, panicking, raised, reports>>
libVars == <<sessions, delivered, logged, observed, made, nCalls>>
vars == <<Config, configLog, handler, arrays, reqs, hdrs, pc, cRequest, r, ctx,
          notifier, deferred, panicking, raised, reports, rebuilt,
          sessions, delivered, logged, observed, made, nCalls>>

\* ---------------------------------------------------------------- Go slices
NilSlice == [arr |-> 0, len |-> 0, cap |-> 0]
NoArray == [cap |-> 0, cells |-> <<>>]

\* Address of the array a variadic call allocates for its arguments, of the
\* array AutoNotify's append allocates, and of the one request p's append
\* allocates (when it has to).
ArgsArray == 1
StateArray == 2
RequestArray(p) == 2 + p
ArrayIds == 1..(2 + NumRequests)

\* runtime.growslice for a slice of interface{} below 256 elements: double
\* the capacity, or take what is needed if that is more.
GrowCap(oldCap, needed) ==
    IF needed > 2 * oldCap THEN needed ELSE 2 * oldCap

\* The slice append(s, x) returns: s extended in place when it has spare
\* capacity, a view of a fresh array otherwise.
AppendSlice(s, fresh) ==
    IF s.len < s.cap
    THEN [s EXCEPT !.len = s.len + 1]
    ELSE [arr |-> fresh, len |-> s.len + 1, cap |-> GrowCap(s.cap, s.len + 1)]

\* Variant: the element is stored one cell too low when s has spare capacity.
AppendHeap_OffByOne(h, s, x, fresh) ==
    IF s.len < s.cap
    THEN [h EXCEPT ![s.arr].cells[s.len] = x]
    ELSE LET newCap == GrowCap(s.cap, s.len + 1)
         IN  [h EXCEPT ![fresh] =
                 [cap |-> newCap,
                  cells |-> [i \in 1..newCap |->
                                IF i <= s.len THEN h[s.arr].cells[i]
                                ELSE IF i = s.len + 1 THEN x
                                ELSE NilDatum]]]

\* The heap after append(s, x).
AppendHeap(h, s, x, fresh) ==
    IF s.len < s.cap
    THEN [h EXCEPT ![s.arr].cells[s.len + 1] = x]
    ELSE LET newCap == GrowCap(s.cap, s.len + 1)
         IN  [h EXCEPT ![fresh] =
                 [cap |-> newCap,
                  cells |-> [i \in 1..newCap |->
                                IF i <= s.len THEN h[s.arr].cells[i]
                                ELSE IF i = s.len + 1 THEN x
                                ELSE NilDatum]]]

\* The elements a slice shows.
SliceElems(h, s) == [i \in 1..s.len |-> h[s.arr].cells[i]]

\* The slice a variadic call passes for the arguments args.
VariadicSlice(args) ==
    IF Len(args) = 0 THEN NilSlice
    ELSE [arr |-> ArgsArray, len |-> Len(args), cap |-> Len(args)]

VariadicHeap(h, args) ==
    IF Len(args) = 0 THEN h
    ELSE [h EXCEPT ![ArgsArray] = [cap |-> Len(args), cells |-> args]]

\* ------------------------------------------------------ the bugsnag package
\* bugsnag.Config before any Configure call, as far as modelled here.
ZeroConfig == [APIKey |-> "", ReleaseStage |-> "", AutoCaptureSessions |-> "nil"]

\* Variant: a field that is already set globally keeps its value.
Configure_KeepFirst(cfg, c) ==
    [APIKey |-> IF cfg.APIKey # "" THEN cfg.APIKey ELSE c.APIKey,
     ReleaseStage |-> IF cfg.ReleaseStage # "" THEN cfg.ReleaseStage ELSE c.ReleaseStage,
     AutoCaptureSessions |-> IF cfg.AutoCaptureSessions # "nil" THEN cfg.AutoCaptureSessions
                             ELSE c.AutoCaptureSessions]

\* bugsnag.Configure: every field the argument sets overrides the global one.
Configure(cfg, c) ==
    [APIKey |-> IF c.APIKey # "" THEN c.APIKey ELSE cfg.APIKey,
     ReleaseStage |-> IF c.ReleaseStage # "" THEN c.ReleaseStage ELSE cfg.ReleaseStage,
     AutoCaptureSessions |-> IF c.AutoCaptureSessions # "nil" THEN c.AutoCaptureSessions
                             ELSE cfg.AutoCaptureSessions]

\* bugsnag.StartSession: a context derived by starting a session on it.
StartSession(c) == Append(c, [k |-> "session", r |-> 0])

\* bugsnag.AttachRequestData: a context derived by attaching the request.
AttachRequestData(c, req) == Append(c, [k |-> "request", r |-> req])

\* bugsnag.New: a notifier bound to the raw data it is given and to a copy of
\* the global configuration; it flushes sessions on repanic by default.
New(rawData, cfg) ==
    [type |-> "Notifier", RawData |-> rawData, Config |-> cfg,
     flushSessionsOnRepanic |-> TRUE]

\* notifier.FlushSessionsOnRepanic
FlushSessionsOnRepanic(n, flag) == [n EXCEPT !.flushSessionsOnRepanic = flag]

NoNotifier == [type |-> "nil"]

\* logger.msg before anything was logged.
NoMessage == [level |-> "", text |-> ""]

\* How reporting an event may end: it is delivered, or serializing or sending
\* it fails, which the notifier absorbs.
ReportOutcomes == {"delivered", "failed"}

\* Whether a deferred notifier method reports, given what recover() returned:
\* AutoNotify and Recover report the panic they recover, Notify always reports.
NotifierReports(method, recovered) ==
    CASE method = "AutoNotify" -> recovered # NoPanic
      [] method = "Recover" -> recovered # NoPanic
      [] OTHER -> TRUE

\* Variant: AutoNotify returns after reporting, like Recover.
RepanicValue_Silent(method, recovered, outcome) == NoPanic

\* Variant: a failed report panics with its own error.
RepanicValue_Masking(method, recovered, outcome) ==
    IF method # "AutoNotify" THEN NoPanic
    ELSE IF outcome = "failed" /\ recovered # NoPanic
         THEN [type |-> "*errors.errorString", msg |-> "bugsnag: report failed"]
         ELSE recovered

\* What the goroutine panics with after the deferred method ran: AutoNotify
\* panics again with the value it recovered, Recover keeps it swallowed.
RepanicValue(method, recovered, outcome) ==
    IF method = "AutoNotify" THEN recovered ELSE NoPanic

\* The last datum of the given type among elems, or dflt.
RECURSIVE LastOfType(_, _, _)
LastOfType(elems, type, dflt) ==
    IF Len(elems) = 0 THEN dflt
    ELSE IF elems[Len(elems)].type = type THEN elems[Len(elems)]
    ELSE LastOfType(SubSeq(elems, 1, Len(elems) - 1), type, dflt)

\* ----------------------------------------------------------- construction
\* Variant: the loop runs over rawData from its end.
RECURSIVE ConfigureCalls_Reversed(_, _)
ConfigureCalls_Reversed(rawData, i) ==
    IF i > Len(rawData) THEN <<>>
    ELSE IF rawData[i].type = "Configuration"
         THEN ConfigureCalls_Reversed(rawData, i + 1) \o <<rawData[i]>>
         ELSE ConfigureCalls_Reversed(rawData, i + 1)

\* The loop of AutoNotify over rawData: the arguments of the Configure calls
\* it makes, in the order it makes them.
RECURSIVE ConfigureCalls(_, _)
ConfigureCalls(rawData, i) ==
    IF i > Len(rawData) THEN <<>>
    ELSE IF rawData[i].type = "Configuration"
         THEN <<rawData[i]>> \o ConfigureCalls(rawData, i + 1)
         ELSE ConfigureCalls(rawData, i + 1)

RECURSIVE ConfigureAll(_, _)
ConfigureAll(cfg, calls) ==
    IF calls = <<>> THEN cfg
    ELSE ConfigureAll(Configure(cfg, Head(calls)), Tail(calls))

NoHandler == [built |-> FALSE, args |-> <<>>, rawData |-> NilSlice]

\* AutoNotify(rawData...): configure, append the handled state, return the
\* handler closing over the grown slice.
Build(args) ==
    /\ ~handler.built
    /\ LET calls == ConfigureCalls(args, 1)
           s0 == VariadicSlice(args)
           h0 == VariadicHeap(arrays, args)
       IN  /\ configLog' = configLog \o calls
           /\ Config' = ConfigureAll(Config, calls)
           /\ arrays' = AppendHeap(h0, s0, HandledState, StateArray)
           /\ handler' = [built |-> TRUE, args |-> args,
                          rawData |-> AppendSlice(s0, StateArray)]
    /\ UNCHANGED <<reqs, hdrs>>
    /\ UNCHANGED localVars
    /\ UNCHANGED flowVars
    /\ UNCHANGED <<rebuilt, libVars>>

\* Number of AutoNotify calls made with the same arguments.
MaxBuilds == 3

\* The raw data the handler returned by AutoNotify(args...) closes over, in
\* the arrays that call allocates.
BuiltElems(args) ==
    LET s0 == VariadicSlice(args)
        h0 == VariadicHeap([a \in ArrayIds |-> NoArray], args)
    IN  SliceElems(AppendHeap(h0, s0, HandledState, StateArray),
                   AppendSlice(s0, StateArray))

\* AutoNotify is called again with the arguments of the first call: it
\* configures again and returns a handler of its own.
Rebuild ==
    /\ handler.built
    /\ Len(rebuilt) + 1 < MaxBuilds
    /\ LET calls == ConfigureCalls(handler.args, 1)
       IN  /\ configLog' = configLog \o calls
           /\ Config' = ConfigureAll(Config, calls)
    /\ rebuilt' = Append(rebuilt, BuiltElems(handler.args))
    /\ UNCHANGED handler
    /\ UNCHANGED heapVars
    /\ UNCHANGED localVars
    /\ UNCHANGED flowVars
    /\ UNCHANGED libVars

\* ------------------------------------------------------------- per request
\* Addresses of the request object the framework hands in for request p and
\* of the one r.WithContext allocates.
InboundRequest(p) == 2 * p - 1
DerivedRequest(p) == 2 * p
RequestIds == 1..(2 * NumRequests)

NoRequest == [Method |-> "", Header |-> 0, ctx |-> <<>>]
InboundCtx == <<[k |-> "inbound", r |-> 0]>>

\* Requests are numbered in the order they arrive.
NextToArrive(p) == IF p = 1 THEN TRUE ELSE pc[p - 1] # "idle"

\* The framework calls the handler with a fresh gin.Context for request p.
Enter(p) ==
    /\ handler.built
    /\ pc[p] = "idle"
    /\ NextToArrive(p)
    /\ reqs' = [reqs EXCEPT ![InboundRequest(p)] =
                   [Method |-> "GET", Header |-> p, ctx |-> InboundCtx]]
    /\ cRequest' = [cRequest EXCEPT ![p] = InboundRequest(p)]
    /\ pc' = [pc EXCEPT ![p] = "entered"]
    /\ UNCHANGED <<arrays, hdrs, r, ctx, notifier, deferred>>
    /\ UNCHANGED globalVars
    /\ UNCHANGED <<panicking, raised, reports>>
    /\ UNCHANGED <<rebuilt, libVars>>

\* c.Copy().Request: gin copies the Context struct, whose Request field is a
\* pointer; the copy points at the same http.Request.
CopyRequest(p) == cRequest[p]

\* Variant: the request is attached before the session is started.
DeriveCtx_Swapped(c, req) == StartSession(AttachRequestData(c, req))

\* ctx = StartSession(ctx); ctx = AttachRequestData(ctx, r)
DeriveCtx(c, req) == AttachRequestData(StartSession(c), req)

\* r.WithContext(ctx): a shallow copy of the request with its context
\* replaced; the Header map is shared with the original.
WithContext(req, c) == [req EXCEPT !.ctx = c]

\* Variant: the Configure loop sits inside the returned closure.
HandlerConfigureCalls_Loop == ConfigureCalls(handler.args, 1)

\* The Configure calls the returned closure makes per request: none.
HandlerConfigureCalls == <<>>

\* Lines 31-35: r, ctx and c.Request.
Enrich(p) ==
    /\ pc[p] = "entered"
    /\ LET req == CopyRequest(p)
           c == DeriveCtx(reqs[req].ctx, req)
       IN  /\ r' = [r EXCEPT ![p] = req]
           /\ ctx' = [ctx EXCEPT ![p] = c]
           /\ reqs' = [reqs EXCEPT ![DerivedRequest(p)] = WithContext(reqs[req], c)]
           /\ cRequest' = [cRequest EXCEPT ![p] = DerivedRequest(p)]
    /\ pc' = [pc EXCEPT ![p] = "enriched"]
    /\ configLog' = configLog \o HandlerConfigureCalls
    /\ Config' = ConfigureAll(Config, HandlerConfigureCalls)
    /\ UNCHANGED <<arrays, hdrs, notifier, deferred, handler>>
    /\ UNCHANGED <<panicking, raised, reports>>
    /\ UNCHANGED <<rebuilt, libVars>>

RequestDatum(req) == [type |-> "Request", ptr |-> req]

\* Variants: the handler defers notifier.Recover, or notifier.Notify.
DeferredMethod_Recover == "Recover"
DeferredMethod_Notify == "Notify"

\* The notifier method the handler defers.
DeferredMethod == "AutoNotify"

\* Variant: the defer statement follows c.Next() and registers nothing
\* before it.
DeferStack_Late(p) == <<>>

\* defer notifier.AutoNotify(ctx, r): the arguments are evaluated here.
DeferStack(p) == <<[method |-> DeferredMethod, ctx |-> ctx[p], r |-> r[p]]>>

\* Variant: line 39 is missing.
ArmNotifier_NoOption(bound) == New(bound, Config)

\* notifier := bugsnag.New(...); notifier.FlushSessionsOnRepanic(false)
ArmNotifier(bound) == FlushSessionsOnRepanic(New(bound, Config), FALSE)

\* Lines 38-41: the notifier, its option, the deferred report, then c.Next().
Arm(p) ==
    /\ pc[p] = "enriched"
    /\ LET s == handler.rawData
           bound == AppendSlice(s, RequestArray(p))
       IN  /\ arrays' = AppendHeap(arrays, s, RequestDatum(r[p]), RequestArray(p))
           /\ notifier' = [notifier EXCEPT ![p] = ArmNotifier(bound)]
    /\ deferred' = [deferred EXCEPT ![p] = DeferStack(p)]
    /\ pc' = [pc EXCEPT ![p] = "downstream"]
    /\ UNCHANGED <<reqs, hdrs, cRequest, r, ctx>>
    /\ UNCHANGED globalVars
    /\ UNCHANGED <<panicking, raised, reports>>
    /\ UNCHANGED <<rebuilt, libVars>>

Untouched(p) ==
    /\ reqs[cRequest[p]].Method = "GET"
    /\ hdrs[reqs[cRequest[p]].Header] = {}

\* The downstream handler changes the request it received through c.Request:
\* c.Request.Method = "POST"; c.Request.Header.Set("X-Seen", ...).
DownstreamMutate(p) ==
    /\ pc[p] = "downstream"
    /\ Untouched(p)
    /\ reqs' = [reqs EXCEPT ![cRequest[p]].Method = "POST"]
    /\ hdrs' = [hdrs EXCEPT ![reqs[cRequest[p]].Header] = @ \cup {"X-Seen"}]
    /\ UNCHANGED arrays
    /\ UNCHANGED globalVars
    /\ UNCHANGED localVars
    /\ UNCHANGED flowVars
    /\ UNCHANGED <<rebuilt, libVars>>

\* c.Next() returns.
DownstreamReturn(p) ==
    /\ pc[p] = "downstream"
    /\ pc' = [pc EXCEPT ![p] = "normal_complete"]
    /\ UNCHANGED heapVars
    /\ UNCHANGED globalVars
    /\ UNCHANGED localVars
    /\ UNCHANGED <<panicking, raised, reports>>
    /\ UNCHANGED <<rebuilt, libVars>>

\* c.Next() panics with v.
DownstreamPanic(p, v) ==
    /\ pc[p] = "downstream"
    /\ panicking' = [panicking EXCEPT ![p] = v]
    /\ raised' = [raised EXCEPT ![p] = v]
    /\ pc' = [pc EXCEPT ![p] = "panicking"]
    /\ UNCHANGED heapVars
    /\ UNCHANGED globalVars
    /\ UNCHANGED localVars
    /\ UNCHANGED reports
    /\ UNCHANGED <<rebuilt, libVars>>

\* What a request looks like to whoever reads it through the pointer req.
RequestView(req) == [Method |-> reqs[req].Method, Header |-> hdrs[reqs[req].Header]]

\* The event the notifier n builds for the recovered panic: tagged with the
\* handled state of its raw data, and with the context and request of the
\* deferred call.
Event(n, call, recovered, outcome) ==
    LET elems == SliceElems(arrays, n.RawData)
    IN  [err |-> recovered,
         state |-> LastOfType(elems, "HandledState", DefaultPanicState),
         ctx |-> call.ctx,
         r |-> call.r,
         seen |-> RequestView(call.r),
         outcome |-> outcome]

\* The handler function is left, normally or by the panic: its deferred call
\* runs. recover() hands the method the panic in flight and stops it.
RunDeferred(p, outcome) ==
    /\ pc[p] \in {"normal_complete", "panicking"}
    /\ deferred[p] # <<>>
    /\ LET call == Head(deferred[p])
           recovered == panicking[p]
       IN  /\ reports' = [reports EXCEPT ![p] =
                             IF NotifierReports(call.method, recovered)
                             THEN Append(@, Event(notifier[p], call, recovered, outcome))
                             ELSE @]
           /\ panicking' = [panicking EXCEPT ![p] =
                               RepanicValue(call.method, recovered, outcome)]
    /\ deferred' = [deferred EXCEPT ![p] = Tail(@)]
    /\ pc' = [pc EXCEPT ![p] = "report_attempted"]
    /\ UNCHANGED heapVars
    /\ UNCHANGED globalVars
    /\ UNCHANGED <<cRequest, r, ctx, notifier>>
    /\ UNCHANGED raised
    /\ UNCHANGED <<rebuilt, libVars>>

\* No deferred call is left to run.
Leaving(p) ==
    \/ pc[p] = "report_attempted"
    \/ pc[p] \in {"normal_complete", "panicking"} /\ deferred[p] = <<>>

\* The handler function is done: it returns to the framework, or the panic
\* goes on unwinding into the caller, where a recovery layer further up the
\* chain (gin.Recovery()) recovers panicking[p].
Exit(p) ==
    /\ Leaving(p)
    /\ pc' = [pc EXCEPT ![p] =
                 IF panicking[p] = NoPanic THEN "returned" ELSE "repropagating"]
    /\ UNCHANGED heapVars
    /\ UNCHANGED globalVars
    /\ UNCHANGED localVars
    /\ UNCHANGED <<panicking, raised, reports>>
    /\ UNCHANGED <<rebuilt, libVars>>

\* ------------------------------------------------------------ specification
Init ==
    /\ Config = ZeroConfig
    /\ configLog = <<>>
    /\ handler = NoHandler
    /\ arrays = [a \in ArrayIds |-> NoArray]
    /\ reqs = [i \in RequestIds |-> NoRequest]
    /\ hdrs = [p \in Requests |-> {}]
    /\ pc = [p \in Requests |-> "idle"]
    /\ cRequest = [p \in Requests |-> 0]
    /\ r = [p \in Requests |-> 0]
    /\ ctx = [p \in Requests |-> <<>>]
    /\ notifier = [p \in Requests |-> NoNotifier]
    /\ deferred = [p \in Requests |-> <<>>]
    /\ panicking = [p \in Requests |-> NoPanic]
    /\ raised = [p \in Requests |-> NoPanic]
    /\ reports = [p \in Requests |-> <<>>]
    /\ rebuilt = <<>>
    /\ sessions = <<>>
    /\ delivered = <<>>
    /\ logged = NoMessage
    /\ observed = NoPanic
    /\ made = NoNotifier
    /\ nCalls = 0

Next ==
    \/ \E args \in RawDataInputs : Build(args)
    \/ \E p \in Requests : Enter(p)
    \/ \E p \in Requests : Enrich(p)
    \/ \E p \in Requests : Arm(p)
    \/ \E p \in Requests : DownstreamMutate(p)
    \/ \E p \in Requests : DownstreamReturn(p)
    \/ \E p \in Requests, v \in PanicValues : DownstreamPanic(p, v)
    \/ \E p \in Requests, o \in ReportOutcomes : RunDeferred(p, o)
    \/ \E p \in Requests : Exit(p)

Spec == Init /\ [][Next]_vars

\* One step of the handler function of request p or of what it calls.
HandlerStep(p) ==
    \/ Enrich(p)
    \/ Arm(p)
    \/ DownstreamReturn(p)
    \/ \E v \in PanicValues : DownstreamPanic(p, v)
    \/ \E o \in ReportOutcomes : RunDeferred(p, o)
    \/ Exit(p)

FairSpec ==
    /\ Spec
    /\ \A p \in Requests : WF_vars(HandlerStep(p))

RebuildNext ==
    \/ Next
    \/ Rebuild

RebuildSpec == Init /\ [][RebuildNext]_vars

\* --------------------------------------- the package as its tests call it
\* Number of package-level calls made in one run.
MaxCalls == 4

SeverityReasonHandledError == "handledError"
SeverityInfo == "info"

\* Configuration{}: no field set.
EmptyConfig ==
    [type |-> "Configuration", APIKey |-> "", ReleaseStage |-> "",
     AutoCaptureSessions |-> "nil"]

\* The configurations passed to Configure.
ConfigureInputs ==
    { EmptyConfig,
      [EmptyConfig EXCEPT !.AutoCaptureSessions = "false"],
      [EmptyConfig EXCEPT !.AutoCaptureSessions = "true"],
      ConfigA, ConfigB }

\* Config.IsAutoCaptureSessions(): on unless it was set to false.
IsAutoCaptureSessions(cfg) ==
    cfg.AutoCaptureSessions = "nil" \/ cfg.AutoCaptureSessions = "true"

\* No error value among the arguments of Notify.
NoError == [type |-> "nil", msg |-> ""]
\* fmt.Errorf("hello world"), panic("ham"), panic(fmt.Errorf("eggs")) and the
\* panic of crashyHandler.
HelloWorld == [type |-> "*errors.errorString", msg |-> "hello world"]
Ham == [type |-> "*errors.errorString", msg |-> "ham"]
Eggs == [type |-> "*errors.errorString", msg |-> "eggs"]
ClosedChannel == [type |-> "runtime.plainError", msg |-> "send on closed channel"]

NotifyErrors == {NoError, HelloWorld}

\* The handled state passed to Recover by TestRecoverCustomHandledState.
CustomHandledState ==
    [type |-> "HandledState",
     SeverityReason |-> SeverityReasonHandledPanic,
     OriginalSeverity |-> SeverityError,
     Unhandled |-> TRUE,
     Framework |-> ""]

\* The raw data passed to Recover besides the context and the configuration.
RecoverRawData == {<<>>, <<CustomHandledState>>}

\* What was logged when Notify found no error to report; the fragments are
\* the ones the message contains.
NotNotifiedMessage ==
    [level |-> "ERROR", fragments |-> {"error", "Bugsnag", "not notified"}]

\* Variant: Notify reports whatever it is given.
NotifyReports_Always(err) == TRUE

\* Notify reports when an error value is among its arguments.
NotifyReports(err) == err # NoError

\* Variant: every call falls back to the state of an unhandled panic.
DefaultState_Panic(method) == DefaultPanicState

\* The state an event gets when the raw data carries no HandledState.
DefaultState(method) ==
    CASE method = "Notify" ->
             [DefaultPanicState EXCEPT !.SeverityReason = SeverityReasonHandledError,
                                       !.OriginalSeverity = SeverityWarning,
                                       !.Unhandled = FALSE]
      [] method = "Recover" ->
             [DefaultPanicState EXCEPT !.OriginalSeverity = SeverityWarning,
                                       !.Unhandled = FALSE]
      [] method = "Handler" ->
             [DefaultPanicState EXCEPT !.OriginalSeverity = SeverityInfo]
      [] OTHER -> DefaultPanicState

EventState(method, rawData) ==
    LastOfType(rawData, "HandledState", DefaultState(method))

\* StartSession(context.Background()) as an argument of the call starts a
\* session; a context kept from an earlier call carries the latest one.
NewSession == [handled |-> 0, unhandled |-> 0]
CanUse(fresh) == IF fresh THEN TRUE ELSE Len(sessions) > 0
StartedSessions(fresh) == IF fresh THEN Append(sessions, NewSession) ELSE sessions

\* Variant: the event is counted under the other classification.
CountEvent_Swapped(sess, isUnhandled) ==
    IF isUnhandled THEN [sess EXCEPT !.handled = @ + 1]
    ELSE [sess EXCEPT !.unhandled = @ + 1]

\* The session of the context counts the event it is reported with.
CountEvent(sess, isUnhandled) ==
    IF isUnhandled THEN [sess EXCEPT !.unhandled = @ + 1]
    ELSE [sess EXCEPT !.handled = @ + 1]

\* The payload the endpoint receives for one event.
Payload(method, err, st, sid, sess) ==
    [call |-> method,
     err |-> err,
     severity |-> st.OriginalSeverity,
     unhandled |-> st.Unhandled,
     reason |-> st.SeverityReason,
     session |-> sid,
     events |-> [handled |-> sess.handled, unhandled |-> sess.unhandled]]

\* An event is built, counted on its session and delivered.
ReportEvent(method, err, rawData, fresh) ==
    LET started == StartedSessions(fresh)
        sid == Len(started)
        st == EventState(method, rawData)
        counted == CountEvent(started[sid], st.Unhandled)
    IN  /\ sessions' = [started EXCEPT ![sid] = counted]
        /\ delivered' = Append(delivered, Payload(method, err, st, sid, counted))

\* The middleware is not running while the package is called directly.
MiddlewareIdle ==
    /\ UNCHANGED <<handler, rebuilt>>
    /\ UNCHANGED heapVars
    /\ UNCHANGED localVars
    /\ UNCHANGED flowVars

\* Configure(c)
ConfigureCall(c) ==
    /\ nCalls < MaxCalls
    /\ Config' = Configure(Config, c)
    /\ configLog' = Append(configLog, c)
    /\ nCalls' = nCalls + 1
    /\ UNCHANGED <<sessions, delivered, logged, observed, made>>
    /\ MiddlewareIdle

\* New()
NewCall ==
    /\ nCalls < MaxCalls
    /\ made' = New(NilSlice, Config)
    /\ nCalls' = nCalls + 1
    /\ UNCHANGED <<sessions, delivered, logged, observed>>
    /\ UNCHANGED <<Config, configLog>>
    /\ MiddlewareIdle

\* Notify(ctx, err?, ...)
NotifyCall(fresh, err) ==
    /\ nCalls < MaxCalls
    /\ CanUse(fresh)
    /\ IF NotifyReports(err)
       THEN /\ ReportEvent("Notify", err, <<>>, fresh)
            /\ UNCHANGED logged
       ELSE /\ sessions' = StartedSessions(fresh)
            /\ logged' = NotNotifiedMessage
            /\ UNCHANGED delivered
    /\ nCalls' = nCalls + 1
    /\ UNCHANGED <<observed, made>>
    /\ UNCHANGED <<Config, configLog>>
    /\ MiddlewareIdle

\* func() { defer func() { panicked = recover() }()
\*          defer Recover(rawData...); panic("ham") }()
RecoverCall(fresh, rawData) ==
    /\ nCalls < MaxCalls
    /\ CanUse(fresh)
    /\ IF NotifierReports("Recover", Ham)
       THEN ReportEvent("Recover", Ham, rawData, fresh)
       ELSE sessions' = StartedSessions(fresh) /\ UNCHANGED delivered
    /\ observed' = RepanicValue("Recover", Ham, "delivered")
    /\ nCalls' = nCalls + 1
    /\ UNCHANGED <<logged, made>>
    /\ UNCHANGED <<Config, configLog>>
    /\ MiddlewareIdle

\* The same with defer AutoNotify(...) and panic(fmt.Errorf("eggs")).
AutoNotifyCall(fresh) ==
    /\ nCalls < MaxCalls
    /\ CanUse(fresh)
    /\ IF NotifierReports("AutoNotify", Eggs)
       THEN ReportEvent("AutoNotify", Eggs, <<>>, fresh)
       ELSE sessions' = StartedSessions(fresh) /\ UNCHANGED delivered
    /\ observed' = RepanicValue("AutoNotify", Eggs, "delivered")
    /\ nCalls' = nCalls + 1
    /\ UNCHANGED <<logged, made>>
    /\ UNCHANGED <<Config, configLog>>
    /\ MiddlewareIdle

\* A request served by Handler(mux, config, SeverityInfo) around crashyHandler:
\* the session is started for the request, the panic goes on to the server.
HandlerCall ==
    /\ nCalls < MaxCalls
    /\ ReportEvent("Handler", ClosedChannel, <<>>, TRUE)
    /\ observed' = RepanicValue("AutoNotify", ClosedChannel, "delivered")
    /\ nCalls' = nCalls + 1
    /\ UNCHANGED <<logged, made>>
    /\ UNCHANGED <<Config, configLog>>
    /\ MiddlewareIdle

LibNext ==
    \/ \E c \in ConfigureInputs : ConfigureCall(c)
    \/ NewCall
    \/ \E fresh \in BOOLEAN, err \in NotifyErrors : NotifyCall(fresh, err)
    \/ \E fresh \in BOOLEAN, rawData \in RecoverRawData : RecoverCall(fresh, rawData)
    \/ \E fresh \in BOOLEAN : AutoNotifyCall(fresh)
    \/ HandlerCall

LibSpec == Init /\ [][LibNext]_vars

\* ------------------------------------------------------------------ claims
\* The deferred call of request p has run after c.Next() panicked.
ReportedPanic(p) ==
    /\ raised[p] # NoPanic
    /\ pc[p] \in {"report_attempted", "returned", "repropagating"}

\* C1: whenever the downstream handler panicked with V, the panic in flight
\* once the deferred report has run, and so the one the caller recovers, is V
\* with its type and message, and the handler never returns normally.
PanicValuePreserved ==
    \A p \in Requests :
        ReportedPanic(p) => /\ panicking[p] = raised[p]
                            /\ pc[p] # "returned"

PanicValuePreserved_Witness ==
    \E p \in Requests :
        /\ pc[p] = "repropagating"
        /\ raised[p] = [type |-> "*errors.errorString", msg |-> "eggs"]
        /\ panicking[p].msg = "eggs"

\* C2: a request whose downstream handler panicked has no report before its
\* deferred call runs and exactly one after, and that report is tagged
\* unhandled, severity error, reason unhandled middleware error, framework Gin.
ExactlyOneTaggedReport ==
    \A p \in Requests :
        /\ Len(reports[p]) <= 1
        /\ pc[p] = "panicking" => reports[p] = <<>>
        /\ ReportedPanic(p) =>
              /\ Len(reports[p]) = 1
              /\ reports[p][1].state.Unhandled = TRUE
              /\ reports[p][1].state.OriginalSeverity = "error"
              /\ reports[p][1].state.SeverityReason = "unhandled middleware error"
              /\ reports[p][1].state.Framework = "Gin"

ExactlyOneTaggedReport_Witness ==
    \E p \in Requests :
        /\ pc[p] = "repropagating"
        /\ Len(reports[p]) = 1
        /\ reports[p][1].state.Framework = "Gin"

\* C3: a request whose downstream handler returned normally emits no event,
\* and its handler returns normally with no panic in flight.
NoReportOnNormalReturn ==
    \A p \in Requests :
        (raised[p] = NoPanic /\ pc[p] \in {"report_attempted", "returned", "repropagating"})
            => /\ reports[p] = <<>>
               /\ panicking[p] = NoPanic
               /\ pc[p] # "repropagating"

NoReportOnNormalReturn_Witness ==
    \E p \in Requests :
        /\ pc[p] = "returned"
        /\ raised[p] = NoPanic
        /\ reports[p] = <<>>

\* Request p holds a notifier and has not left the handler function.
InFlight(p) == pc[p] \in {"downstream", "normal_complete", "panicking"}

\* The request the raw data of p's notifier ends with.
BoundRequest(p) ==
    LastOfType(SliceElems(arrays, notifier[p].RawData), "Request", RequestDatum(0)).ptr

\* C4: while requests are in flight, each one's notifier is bound to its own
\* request, and no two of them hold raw data in the same backing array.
RequestDataNotShared ==
    \A p \in Requests, q \in Requests :
        (InFlight(p) /\ InFlight(q)) =>
            /\ BoundRequest(p) = r[p]
            /\ p # q => notifier[p].RawData.arr # notifier[q].RawData.arr

\* C5: when the panic reaches the caller of the handler, where an outer
\* recovery layer can observe it, the report of that panic has been attempted.
ReportBeforeOuterRecovery ==
    \A p \in Requests :
        pc[p] = "repropagating" =>
            /\ reports[p] # <<>>
            /\ reports[p][1].err = panicking[p]

ReportBeforeOuterRecovery_Witness ==
    \E p \in Requests :
        /\ pc[p] = "repropagating"
        /\ reports[p] # <<>>
        /\ reports[p][1].err.type = "runtime.plainError"

LifecycleSteps ==
    { <<"idle", "entered">>, <<"entered", "enriched">>, <<"enriched", "downstream">>,
      <<"downstream", "normal_complete">>, <<"downstream", "panicking">>,
      <<"normal_complete", "report_attempted">>, <<"panicking", "report_attempted">>,
      <<"report_attempted", "returned">>, <<"report_attempted", "repropagating">> }

\* C7: a request moves ENTERED, CONTEXT_ENRICHED, DOWNSTREAM_RUNNING, then
\* NORMAL_COMPLETE or PANICKING, then REPORT_ATTEMPTED, and ends RETURNED
\* exactly when downstream returned and RE-PROPAGATING exactly when it
\* panicked; every request that entered eventually ends.
RequestLifecycle ==
    /\ [][\A p \in Requests :
             pc'[p] # pc[p] => <<pc[p], pc'[p]>> \in LifecycleSteps]_vars
    /\ [](\A p \in Requests :
             /\ pc[p] = "returned" => raised[p] = NoPanic
             /\ pc[p] = "repropagating" => raised[p] # NoPanic
             /\ pc[p] \in {"returned", "repropagating"} => deferred[p] = <<>>)
    /\ \A p \in Requests :
           (pc[p] = "entered") ~> (pc[p] \in {"returned", "repropagating"})

RequestLifecycle_Witness ==
    /\ \E p \in Requests : pc[p] = "returned"
    /\ \E p \in Requests : pc[p] = "repropagating"

IsConfiguration(d) == d.type = "Configuration"

\* C8: once AutoNotify has returned, and so before any request is handled,
\* the Configure calls made are exactly its arguments of type Configuration,
\* in argument order; before it, none is made, no request is handled, and
\* the call goes through whatever its arguments are.
ConfigurationsAppliedInOrder ==
    /\ handler.built => configLog = SelectSeq(handler.args, IsConfiguration)
    /\ ~handler.built => /\ configLog = <<>>
                         /\ \A args \in RawDataInputs : ENABLED Build(args)
    /\ \A p \in Requests : pc[p] # "idle" => handler.built

ConfigurationsAppliedInOrder_Witness ==
    /\ handler.built
    /\ handler.args = <<ConfigB, ConfigA>>
    /\ configLog = <<ConfigB, ConfigA>>
    /\ \E p \in Requests : pc[p] = "entered"

\* C9: from the moment the downstream handler runs, the context on c.Request
\* is the inbound context with the session derived first and the request data
\* second, and the deferred report holds, and reports with, that same context.
EnrichedContextInstalled ==
    \A p \in Requests :
        pc[p] \notin {"idle", "entered"} =>
            LET c == reqs[cRequest[p]].ctx
            IN  /\ c = ctx[p]
                /\ c # InboundCtx
                /\ c = InboundCtx \o <<[k |-> "session", r |-> 0],
                                       [k |-> "request", r |-> r[p]]>>
                /\ \A i \in 1..Len(deferred[p]) : deferred[p][i].ctx = c
                /\ \A i \in 1..Len(reports[p]) : reports[p][i].ctx = c

EnrichedContextInstalled_Witness ==
    \E p \in Requests :
        /\ pc[p] = "repropagating"
        /\ reports[p] # <<>>
        /\ reports[p][1].ctx = reqs[cRequest[p]].ctx
        /\ Len(ctx[p]) = 3

\* What every inbound request looks like when the handler is entered.
EntryView == [Method |-> "GET", Header |-> {}]

\* C10: whatever the downstream handler does to the request it receives, the
\* request the report step is given still reads as it did at entry.
ReportSeesEntryRequest ==
    \A p \in Requests :
        /\ InFlight(p) => RequestView(r[p]) = EntryView
        /\ \A i \in 1..Len(reports[p]) : reports[p][i].seen = EntryView

\* C11 as stated: when the notifier's deferred AutoNotify has run, it has
\* raised nothing: no panic is in flight until the handler itself raises one.
NotifierReraisesNothing ==
    \A p \in Requests : pc[p] = "report_attempted" => panicking[p] = NoPanic

\* C11, amended: the deferred AutoNotify reports the panic it recovered and
\* raises that value again itself; the handler adds no panic of its own, it
\* leaves with whatever the deferred call left in flight.
NotifierRepanics ==
    [][\A p \in Requests :
          /\ (pc[p] = "panicking" /\ pc'[p] = "report_attempted") =>
                /\ panicking'[p] = raised[p]
                /\ Len(reports'[p]) = Len(reports[p]) + 1
          /\ (pc[p] = "report_attempted" /\ pc'[p] # "report_attempted") =>
                /\ panicking'[p] = panicking[p]
                /\ pc'[p] = IF panicking[p] = NoPanic THEN "returned"
                                                      ELSE "repropagating"]_vars

NotifierRepanics_Witness ==
    \E p \in Requests :
        /\ pc[p] = "report_attempted"
        /\ raised[p] # NoPanic
        /\ panicking[p] = raised[p]
        /\ Len(reports[p]) = 1

\* C17: until the handler calls c.Next() it holds no notifier and no deferred
\* call; the step that calls c.Next() has created the notifier with the
\* closure's raw data plus the request, switched its flush-sessions-on-repanic
\* option off and deferred the report; the option stays off from then on, so
\* it is off whenever the report runs.
NotifierArmedBeforeNext ==
    /\ [](\A p \in Requests :
             IF pc[p] \in {"idle", "entered", "enriched"}
             THEN notifier[p] = NoNotifier /\ deferred[p] = <<>>
             ELSE /\ notifier[p].type = "Notifier"
                  /\ notifier[p].flushSessionsOnRepanic = FALSE)
    /\ [][\A p \in Requests :
             (pc[p] = "enriched" /\ pc'[p] # "enriched") =>
                 /\ pc'[p] = "downstream"
                 /\ SliceElems(arrays', notifier'[p].RawData)
                        = SliceElems(arrays, handler.rawData) \o <<RequestDatum(r[p])>>
                 /\ notifier'[p].flushSessionsOnRepanic = FALSE
                 /\ deferred'[p] = <<[method |-> "AutoNotify", ctx |-> ctx[p], r |-> r[p]]>>]_vars

NotifierArmedBeforeNext_Witness ==
    \E p \in Requests :
        /\ pc[p] = "panicking"
        /\ notifier[p].type = "Notifier"
        /\ notifier[p].flushSessionsOnRepanic = FALSE
        /\ Len(deferred[p]) = 1

\* C18: the global configuration and the Configure calls made change only in
\* the step in which AutoNotify builds the handler; no step of a request,
\* panicking or not, changes them.
RequestsLeaveConfigAlone ==
    [][/\ (Config' # Config \/ configLog' # configLog) =>
              (~handler.built /\ handler'.built)
       /\ \A p \in Requests :
              pc'[p] # pc[p] => (Config' = Config /\ configLog' = configLog)]_vars

RequestsLeaveConfigAlone_Witness ==
    /\ handler.built
    /\ configLog # <<>>
    /\ Config.APIKey # ""
    /\ \E p \in Requests : pc[p] = "repropagating"
    /\ \E p \in Requests : pc[p] = "returned"

ConfigFields == {"APIKey", "ReleaseStage", "AutoCaptureSessions"}

\* The value the last call of the log that set field f gave it.
RECURSIVE LastSetting(_, _, _)
LastSetting(log, f, zero) ==
    IF log = <<>> THEN zero
    ELSE IF log[Len(log)][f] # zero THEN log[Len(log)][f]
    ELSE LastSetting(SubSeq(log, 1, Len(log) - 1), f, zero)

\* C12: after any sequence of Configure calls every field of the global
\* configuration holds what the last call that set it gave it; session
\* auto-capture is on when no call set it or the last one that did set it
\* true, and off when the last one set it false; a notifier made by New()
\* carries the global configuration of that moment.
LastConfigureWins ==
    /\ [](/\ \A f \in ConfigFields :
                Config[f] = LastSetting(configLog, f, ZeroConfig[f])
          /\ LET setting == LastSetting(configLog, "AutoCaptureSessions", "nil")
             IN  /\ setting = "nil" => IsAutoCaptureSessions(Config)
                 /\ setting = "false" => ~IsAutoCaptureSessions(Config)
                 /\ setting = "true" => IsAutoCaptureSessions(Config))
    /\ [][made' # made =>
             /\ made'.Config = Config
             /\ made'.Config.APIKey = LastSetting(configLog, "APIKey", "")]_vars

LastConfigureWins_Witness ==
    /\ Len(configLog) = 3
    /\ configLog[1] = ConfigA
    /\ configLog[2].AutoCaptureSessions = "false"
    /\ configLog[3].AutoCaptureSessions = "true"
    /\ IsAutoCaptureSessions(Config)
    /\ made # NoNotifier
    /\ made.Config.APIKey = "166f5ad3590596f9aa8d601ea89af845"
    /\ made.Config.AutoCaptureSessions = "true"

\* C13: a deferred Recover around a panic delivers exactly one event and the
\* outer recover() gets nil; without a HandledState in the raw data the event
\* is handled with severity warning, with one it is classified as that state
\* says (unhandled, severity error).
RecoverSwallowsAndReports ==
    [][\A fresh \in BOOLEAN, rawData \in RecoverRawData :
          RecoverCall(fresh, rawData) =>
              /\ Len(delivered') = Len(delivered) + 1
              /\ SubSeq(delivered', 1, Len(delivered)) = delivered
              /\ observed' = NoPanic
              /\ LET e == delivered'[Len(delivered')]
                 IN  /\ e.err.msg = "ham"
                     /\ rawData = <<>> =>
                            e.unhandled = FALSE /\ e.severity = "warning"
                     /\ rawData = <<CustomHandledState>> =>
                            e.unhandled = TRUE /\ e.severity = "error"]_vars

RecoverSwallowsAndReports_Witness ==
    /\ Len(delivered) = 3
    /\ delivered[1].call = "AutoNotify"
    /\ delivered[2].call = "Recover" /\ delivered[2].unhandled = TRUE
    /\ delivered[3].call = "Recover" /\ delivered[3].unhandled = FALSE
    /\ delivered[3].severity = "warning"
    /\ observed = NoPanic

\* Event i is the first one delivered on its session.
FirstOnSession(i) ==
    \A j \in 1..(i - 1) : delivered[j].session # delivered[i].session

NotifyWithoutErrorLogs ==
    /\ [](\A i \in 1..Len(delivered) : delivered[i].err # NoError)
    /\ [][\A fresh \in BOOLEAN :
             NotifyCall(fresh, NoError) =>
                 /\ delivered' = delivered
                 /\ logged'.level = "ERROR"
                 /\ {"Bugsnag", "not notified"} \subseteq logged'.fragments]_vars

NotifyWithoutErrorLogs_Witness ==
    /\ nCalls = 2
    /\ Len(delivered) = 1
    /\ delivered[1].err = HelloWorld
    /\ Len(sessions) = 2
    /\ logged = NotNotifiedMessage

\* The handled state a handler's raw data carries.
Metadata(elems) == LastOfType(elems, "HandledState", NilDatum)

\* C14: however often AutoNotify is called with the same arguments, the global
\* configuration is the one a single call leaves; the handler of every call
\* carries the same handled state, and every event a handler reports, for
\* whichever request, is tagged with that state.
BuildIdempotent ==
    handler.built =>
        LET carried == Metadata(SliceElems(arrays, handler.rawData))
        IN  /\ Config = ConfigureAll(ZeroConfig, ConfigureCalls(handler.args, 1))
            /\ carried # NilDatum
            /\ \A i \in 1..Len(rebuilt) : Metadata(rebuilt[i]) = carried
            /\ \A p \in Requests :
                   \A i \in 1..Len(reports[p]) : reports[p][i].state = carried

BuildIdempotent_Witness ==
    /\ Len(rebuilt) = 2
    /\ handler.args = <<ConfigA, ConfigB>>
    /\ Len(configLog) = 6
    /\ \A p \in Requests : pc[p] = "repropagating" /\ Len(reports[p]) = 1

====
